---- MODULE Spec2Model ----
(***************************************************************************)
(* State-machine model of MPRViewer (src/main.py): the multi-planar        *)
(* reconstruction viewer's session state and its event handlers.           *)
(*                                                                         *)
(* Conventions                                                             *)
(*  - Python lists and numpy shapes are functions on 0..n-1, so that       *)
(*    slices[0], data.shape[2] read as in the source.  `data` holds the    *)
(*    shape of the loaded array; the array of no volume (None) is the      *)
(*    function with the empty domain.                                      *)
(*  - Floating-point data coordinates (event.xdata, axis limits) are       *)
(*    fixed-point integers counting 1/Unit, computed exactly.              *)
(*  - brightness and contrast are kept in hundredths (the slider values):  *)
(*    self.brightness = brightness / 100.                                  *)
(*  - err is the outcome of the handler that ran last: "ok" when it        *)
(*    returned, else the name of the exception that left it.  What a       *)
(*    handler assigned before raising stays assigned.                      *)
(*  - event.inaxes is "None" outside every axes, "image" over the axes     *)
(*    imshow drew in, "colorbar" over the colour bar's axes of the same    *)
(*    figure; there xdata and ydata are in the colour bar's coordinates.   *)
(*    The limits of a colour bar's axes are not part of the state.         *)
(*  - drag_start_x, drag_start_y and drag_view_index are written by        *)
(*    on_mouse_press and never read; they are not part of the state here.  *)
(***************************************************************************)
EXTENDS Integers, Sequences, FiniteSets, TLC

VARIABLES
    data,               \* self.data: shape of the loaded array, NoData for None
    slices,             \* self.slices: the cursor
    marked_points,      \* self.marked_points: per view, a list of [a, b] points
    brightness,         \* self.brightness, in hundredths
    contrast,           \* self.contrast, in hundredths
    brightness_slider,  \* self.brightness_slider.value()
    contrast_slider,    \* self.contrast_slider.value()
    current_colormap,   \* self.current_colormap
    panning,            \* self.panning
    pan_start,          \* self.pan_start: <<x, y>> or <<>> for None
    dragging,           \* self.dragging
    pan_button,         \* self.pan_button.isChecked()
    add_point_button,   \* self.add_point_button.isChecked()
    lims,               \* per view: <<x_min, x_max, y_min, y_max>> of the canvas'
                        \* image axes, <<>> while the figure has no axes
    colorbar,           \* the views whose figure holds a colour bar (line 337)
    vops,               \* pans and zooms since the last redraw (bounds the model)
    err                 \* outcome of the last handler

vars == <<data, slices, marked_points, brightness, contrast, brightness_slider,
          contrast_slider, current_colormap, panning, pan_start, dragging,
          pan_button, add_point_button, lims, colorbar, vops, err>>

----------------------------------------------------------------------------
(* Bounds *)

\* largest length of an axis of a loaded array
MaxDim == 2

\* pans and zooms explored between two redraws
MaxViewOps == 1

\* largest voxel intensity of the planes windowed (intensities are 0..MaxIntensity)
MaxIntensity == 2

----------------------------------------------------------------------------
(* Arithmetic *)

\* fixed-point denominator: halves (event coordinates) and twentieths (the
\* autoscale margin) stay exact through MaxViewOps divisions by 11 or by 10
\* (zoom steps)
Unit == 20 * (110 ^ MaxViewOps)

Min2(a, b) == IF a <= b THEN a ELSE b

Max2(a, b) == IF a >= b THEN a ELSE b

SetMin(S) == CHOOSE x \in S : \A y \in S : x <= y

SetMax(S) == CHOOSE x \in S : \A y \in S : x >= y

\* Clamp0 with the upper bound one too high
Clamp0OffByOne(x, n) == Min2(Max2(x, 0), n)

\* min(max(x, 0), n - 1) as written throughout the source
Clamp0(x, n) == Min2(Max2(x, 0), n - 1)

\* int(round(x)) of a coordinate x counted in 1/Unit: Python rounds halves to even
RoundInt(x) ==
    LET f == x \div Unit
        r == x % Unit
    IN  IF 2 * r < Unit THEN f
        ELSE IF 2 * r > Unit THEN f + 1
        ELSE IF f % 2 = 0 THEN f ELSE f + 1

Views == 0..2

NoData == [i \in {} |-> 0]

IsNone(d) == DOMAIN d = {}

Ndim(d) == Cardinality(DOMAIN d)

----------------------------------------------------------------------------
(* get_slice, lines 228-260: the plane a view extracts *)

\* the array axis a view indexes with its depth: data[:, :, k] for Axial (0),
\* data[:, k, :] for Coronal (1), data[k, :, :] for Sagittal (2)
DepthAxis(v) == 2 - v

\* slice_index after lines 234-235: clamped against data.shape[view_index]
GetSliceIndex(d, v, idx) == Clamp0(idx, d[v])

\* numpy accepts index k on an axis of length n when -n <= k < n
IndexOk(k, n) == -n <= k /\ k < n

\* shape of data[..., k, ...]: the axes of d without the view's depth axis
PlaneShape(d, v) ==
    [i \in 0..(Ndim(d) - 2) |-> d[IF i < DepthAxis(v) THEN i ELSE i + 1]]

\* outcome of get_slice(view_index, slice_index) on a loaded array:
\* IndexError from the indexing at 238/240/242, ValueError from np.min of
\* an empty plane at 247
GetSliceError(d, v, idx) ==
    IF ~IndexOk(GetSliceIndex(d, v, idx), d[DepthAxis(v)]) THEN "IndexError"
    ELSE IF \E i \in DOMAIN d : i # DepthAxis(v) /\ d[i] = 0 THEN "ValueError"
    ELSE "ok"

\* the plane get_slice extracts at lines 237-242: the array axis it indexes
\* and the index on it (a negative index counts from the end), or
\* "IndexError"
GetSlicePlane(d, v, idx) ==
    LET k == GetSliceIndex(d, v, idx)
        n == d[DepthAxis(v)]
    IN  IF ~IndexOk(k, n) THEN "IndexError"
        ELSE <<DepthAxis(v), IF k < 0 THEN k + n ELSE k>>

----------------------------------------------------------------------------
(* get_slice, lines 246-260: brightness and contrast.  A plane is a function
   from its pixels to intensities; a windowed value is the fraction
   num / den, den > 0. *)

\* a flat plane normalised to 0 instead of 0.5
NormalizedFlatZero(plane, i) == [num |-> 0, den |-> 1]

\* lines 247-255: pixel i after normalisation: (x - min) / (max - min), or
\* 0.5 in a plane whose pixels are all equal
Normalized(plane, i) ==
    LET vals == {plane[j] : j \in DOMAIN plane}
        slice_min == SetMin(vals)
        slice_max == SetMax(vals)
    IN  IF slice_max > slice_min
        THEN [num |-> plane[i] - slice_min, den |-> slice_max - slice_min]
        ELSE [num |-> 1, den |-> 2]

\* np.clip(q, 0, 1) of the fraction q
Clip01(q) ==
    IF q.num < 0 THEN [num |-> 0, den |-> q.den]
    ELSE IF q.num > q.den THEN [num |-> q.den, den |-> q.den]
    ELSE q

\* line 258: clip((n - 0.5) * contrast + 0.5 + brightness, 0, 1) for
\* brightness b and contrast c in hundredths:
\* ((2 * n.num - n.den) * c + (100 + 2 * b) * n.den) / (200 * n.den)
Windowed(plane, b, c) ==
    [i \in DOMAIN plane |->
        LET n == Normalized(plane, i)
        IN  Clip01([num |-> (2 * n.num - n.den) * c + (100 + 2 * b) * n.den,
                    den |-> 200 * n.den])]

----------------------------------------------------------------------------
(* update_views, lines 320-354 *)

NoAxes == <<>>

\* limits of the axes add_subplot creates, before anything is drawn in them
DefaultLims == <<0, Unit, 0, Unit>>

HasAxes(v) == lims[v] # NoAxes

\* imshow(view.T) takes a 2D array, or a 3D one whose last axis (the first
\* of view) has length 3 or 4 (colour channels) or length 1 (squeezed to a
\* 2D array); anything else raises TypeError
ImshowOk(ps) ==
    DOMAIN ps = 0..1 \/ (DOMAIN ps = 0..2 /\ ps[0] \in {1, 3, 4})

\* Autoscaled limits of one axis holding the image of extent [0, w] and
\* artists at coordinates cs: the image's edges 0 and w are sticky; an artist
\* beyond them extends the limit to it plus the 5% autoscale margin.
AutoscaleLims(w, cs) ==
    LET d0 == SetMin(cs \cup {0})
        d1 == SetMax(cs \cup {w})
        delta == (d1 - d0) \div 20
    IN  <<IF d0 < 0 THEN d0 - delta ELSE 0,
          IF d1 > w THEN d1 + delta ELSE w>>

\* Limits of one axis after imshow(extent=[0, w, ...]), the markers plotted
\* at coordinates ms (line 341) and the crosshair line at c (lines 344-352):
\* plot autoscales the axis to the image and the markers; axhline/axvline
\* asks for a new autoscale only when its line lies outside those limits.
AxisLims(w, ms, c) ==
    LET l == AutoscaleLims(w, ms)
    IN  IF c < l[1] \/ c > l[2] THEN AutoscaleLims(w, ms \cup {c}) ELSE l

\* crosshair of view i, lines 344-352: axhline position, axvline position
Crosshair(s, i) ==
    IF i = 0 THEN [h |-> s[1], v |-> s[2]]
    ELSE IF i = 1 THEN [h |-> s[0], v |-> s[2]]
    ELSE [h |-> s[0], v |-> s[1]]

\* limits of view i after its redraw (lines 330-354)
RenderedLims(d, s, mp, i) ==
    LET ps == PlaneShape(d, i)
        ch == Crosshair(s, i)
        xl == AxisLims(ps[1] * Unit,
                       {mp[i][n][1] * Unit : n \in DOMAIN mp[i]}, ch.v * Unit)
        yl == AxisLims(ps[0] * Unit,
                       {mp[i][n][2] * Unit : n \in DOMAIN mp[i]}, ch.h * Unit)
    IN  <<xl[1], xl[2], yl[1], yl[2]>>

\* first view whose get_slice raises (line 325-327), 3 if none does
FirstSliceFailure(d, s) ==
    IF GetSliceError(d, 0, s[0]) # "ok" THEN 0
    ELSE IF GetSliceError(d, 1, s[1]) # "ok" THEN 1
    ELSE IF GetSliceError(d, 2, s[2]) # "ok" THEN 2
    ELSE 3

\* first view whose imshow raises (line 334), 3 if none does
FirstImshowFailure(d) ==
    IF ~ImshowOk(PlaneShape(d, 0)) THEN 0
    ELSE IF ~ImshowOk(PlaneShape(d, 1)) THEN 1
    ELSE IF ~ImshowOk(PlaneShape(d, 2)) THEN 2
    ELSE 3

\* lines 325-354, with a volume loaded: the limits the redraw leaves, the
\* pan/zoom count (a redraw that clears a figure discards that figure's pans
\* and zooms), and how it ends
RenderViews(d, s, mp, old, cb, n) ==
    LET g == FirstSliceFailure(d, s)
    IN  IF g < 3
        THEN [lims |-> old, colorbar |-> cb, vops |-> n,
              err |-> GetSliceError(d, g, s[g])]
        ELSE LET f == FirstImshowFailure(d)
             IN  [lims |-> [i \in Views |->
                              IF i < f THEN RenderedLims(d, s, mp, i)
                              ELSE IF i = f THEN DefaultLims
                              ELSE old[i]],
                  colorbar |-> {i \in Views : i < f \/ (i > f /\ i \in cb)},
                  vops |-> 0,
                  err |-> IF f < 3 THEN "TypeError" ELSE "ok"]

\* update_views without the guard of lines 322-323: get_slice returns None
\* for each view and view.T raises in the first figure, already cleared
UpdateViewsUnguarded(d, s, mp, old, cb, n) ==
    IF IsNone(d)
    THEN [lims |-> [i \in Views |-> IF i = 0 THEN DefaultLims ELSE old[i]],
          colorbar |-> cb \ {0},
          vops |-> 0,
          err |-> "AttributeError"]
    ELSE RenderViews(d, s, mp, old, cb, n)

\* update_views() on session (d, s, mp) with axes limits old, colour bars cb
\* and pan/zoom count n
UpdateViews(d, s, mp, old, cb, n) ==
    IF IsNone(d) THEN [lims |-> old, colorbar |-> cb, vops |-> n, err |-> "ok"]
    ELSE RenderViews(d, s, mp, old, cb, n)

----------------------------------------------------------------------------
(* __init__, lines 14-26, and initUI, lines 28-142 *)

Init ==
    /\ data = NoData
    /\ slices = [i \in 0..2 |-> 0]
    /\ marked_points = [i \in Views |-> <<>>]
    /\ brightness = 0
    /\ contrast = 100
    /\ brightness_slider = 0
    /\ contrast_slider = 100
    /\ current_colormap = "gray"
    /\ panning = FALSE
    /\ pan_start = <<>>
    /\ dragging = FALSE
    /\ pan_button = FALSE
    /\ add_point_button = FALSE
    /\ lims = [i \in Views |-> NoAxes]
    /\ colorbar = {}
    /\ vops = 0
    /\ err = "ok"

\* a handler's closing self.update_views() on the session it leaves
Redraw(d, s, mp) ==
    LET r == UpdateViews(d, s, mp, lims, colorbar, vops)
    IN  /\ lims' = r.lims
        /\ colorbar' = r.colorbar
        /\ vops' = r.vops
        /\ err' = r.err

----------------------------------------------------------------------------
(* load_nifti, lines 160-167 *)

\* the midpoints in reverse axis order, as update_slices_to_center lists them
MidSlicesReversed(shape) ==
    [i \in DOMAIN shape |->
        IF i \in 0..2 THEN shape[2 - i] \div 2 ELSE shape[i] \div 2]

\* line 165: [dim // 2 for dim in self.data.shape]
MidSlices(shape) == [i \in DOMAIN shape |-> shape[i] \div 2]

\* update_slices_to_center, line 172: the cursor it sets for a loaded array
SlicesToCenter(shape) ==
    [i \in 0..2 |-> IF i = 0 THEN shape[2] \div 2
                    ELSE IF i = 1 THEN shape[1] \div 2
                    ELSE shape[0] \div 2]

\* nib.load(...).get_fdata() returns an array of this shape
LoadNifti(shape) ==
    /\ data' = shape
    /\ slices' = MidSlices(shape)
    /\ Redraw(shape, MidSlices(shape), marked_points)
    /\ UNCHANGED <<marked_points, brightness, contrast, brightness_slider,
                   contrast_slider, current_colormap, panning, pan_start,
                   dragging, pan_button, add_point_button>>

\* nib.load raises (unreadable file) at line 161, before any assignment
LoadNiftiRaises ==
    /\ err' = "LoadError"
    /\ UNCHANGED <<data, slices, marked_points, brightness, contrast,
                   brightness_slider, contrast_slider, current_colormap, panning,
                   pan_start, dragging, pan_button, add_point_button, lims, colorbar, vops>>

----------------------------------------------------------------------------
(* update_colormap, update_brightness_contrast, lines 144-151 *)

UpdateColormap(colormap_name) ==
    /\ current_colormap' = colormap_name
    /\ Redraw(data, slices, marked_points)
    /\ UNCHANGED <<data, slices, marked_points, brightness, contrast,
                   brightness_slider, contrast_slider, panning, pan_start,
                   dragging, pan_button, add_point_button>>

\* currentTextChanged of the combo box (line 131): emitted when the entry
\* changes
ColormapChanged(colormap_name) ==
    colormap_name # current_colormap /\ UpdateColormap(colormap_name)

\* the handler reads both sliders, whichever of them moved
UpdateBrightnessContrast(b, c) ==
    /\ brightness_slider' = b
    /\ contrast_slider' = c
    /\ brightness' = b
    /\ contrast' = c
    /\ Redraw(data, slices, marked_points)
    /\ UNCHANGED <<data, slices, marked_points, current_colormap, panning,
                   pan_start, dragging, pan_button, add_point_button>>

\* valueChanged of the brightness slider (line 103)
BrightnessSliderChanged(b) ==
    b # brightness_slider /\ UpdateBrightnessContrast(b, contrast_slider)

\* valueChanged of the contrast slider (line 113)
ContrastSliderChanged(c) ==
    c # contrast_slider /\ UpdateBrightnessContrast(brightness_slider, c)

----------------------------------------------------------------------------
(* the two checkable buttons, lines 91-94 and 136-139: a click toggles them *)

TogglePanButton ==
    /\ pan_button' = ~pan_button
    /\ UNCHANGED <<data, slices, marked_points, brightness, contrast,
                   brightness_slider, contrast_slider, current_colormap, panning,
                   pan_start, dragging, add_point_button, lims, colorbar, vops, err>>

ToggleAddPointButton ==
    /\ add_point_button' = ~add_point_button
    /\ UNCHANGED <<data, slices, marked_points, brightness, contrast,
                   brightness_slider, contrast_slider, current_colormap, panning,
                   pan_start, dragging, pan_button, lims, colorbar, vops, err>>

----------------------------------------------------------------------------
(* add_point, lines 190-223 *)

\* the previous points are kept instead of cleared
KeptPoints == marked_points

\* line 196: self.marked_points = [[], [], []]
ClearedPoints == [i \in Views |-> <<>>]

\* AddPointMarks with the clicked view's own point stored as [y, x]
AddPointMarksTransposed(d, s, view_index, xdata, ydata) ==
    LET x0 == RoundInt(xdata)
        y0 == RoundInt(ydata)
        new == IF view_index = 0 THEN
                   LET x == Clamp0(x0, d[0])
                       y == Clamp0(y0, d[1])
                   IN  << <<y, x>>, <<x, s[1]>>, <<y, s[2]>> >>
               ELSE IF view_index = 1 THEN
                   LET x == Clamp0(x0, d[0])
                       y == Clamp0(y0, d[2])
                   IN  << <<x, s[0]>>, <<y, x>>, <<s[1], y>> >>
               ELSE
                   LET x == Clamp0(x0, d[1])
                       y == Clamp0(y0, d[2])
                   IN  << <<s[0], x>>, <<y, x>>, <<y, x>> >>
    IN  [i \in Views |-> Append(ClearedPoints[i], new[i + 1])]

\* self.marked_points after lines 196-220, for a click at (x, y) in view_index:
\* each view's list, cleared at 196, gets one point appended
AddPointMarks(d, s, view_index, xdata, ydata) ==
    LET x0 == RoundInt(xdata)
        y0 == RoundInt(ydata)
        new == IF view_index = 0 THEN
                   LET x == Clamp0(x0, d[0])
                       y == Clamp0(y0, d[1])
                   IN  << <<x, y>>, <<x, s[1]>>, <<y, s[2]>> >>
               ELSE IF view_index = 1 THEN
                   LET x == Clamp0(x0, d[0])
                       y == Clamp0(y0, d[2])
                   IN  << <<x, s[0]>>, <<x, y>>, <<s[1], y>> >>
               ELSE
                   LET x == Clamp0(x0, d[1])
                       y == Clamp0(y0, d[2])
                   IN  << <<s[0], x>>, <<y, x>>, <<x, y>> >>
    IN  [i \in Views |-> Append(ClearedPoints[i], new[i + 1])]

\* add_point(event, view_index) for an event inside the axes (xdata and ydata
\* are not None there, so line 192 does not return)
AddPoint(view_index, xdata, ydata) ==
    IF IsNone(data)
    THEN \* line 196 has cleared the points when self.data.shape raises
         /\ marked_points' = ClearedPoints
         /\ err' = "AttributeError"
         /\ UNCHANGED <<lims, colorbar, vops>>
    ELSE /\ marked_points' = AddPointMarks(data, slices, view_index, xdata, ydata)
         /\ Redraw(data, slices, AddPointMarks(data, slices, view_index, xdata, ydata))

----------------------------------------------------------------------------
(* on_mouse_press, lines 263-277 *)

OnMousePress(view_index, inaxes, xdata, ydata) ==
    IF inaxes = "None" THEN
        /\ err' = "ok"
        /\ UNCHANGED <<data, slices, marked_points, brightness, contrast,
                       brightness_slider, contrast_slider, current_colormap,
                       panning, pan_start, dragging, pan_button,
                       add_point_button, lims, colorbar, vops>>
    ELSE IF pan_button THEN
        /\ panning' = TRUE
        /\ pan_start' = <<xdata, ydata>>
        /\ err' = "ok"
        /\ UNCHANGED <<data, slices, marked_points, brightness, contrast,
                       brightness_slider, contrast_slider, current_colormap,
                       dragging, pan_button, add_point_button, lims, colorbar, vops>>
    ELSE IF add_point_button THEN
        /\ AddPoint(view_index, xdata, ydata)
        /\ UNCHANGED <<data, slices, brightness, contrast, brightness_slider,
                       contrast_slider, current_colormap, panning, pan_start,
                       dragging, pan_button, add_point_button>>
    ELSE
        /\ dragging' = TRUE
        /\ err' = "ok"
        /\ UNCHANGED <<data, slices, marked_points, brightness, contrast,
                       brightness_slider, contrast_slider, current_colormap,
                       panning, pan_start, pan_button, add_point_button, lims, colorbar,
                       vops>>

----------------------------------------------------------------------------
(* on_mouse_drag, lines 279-312 *)

\* lines 285-293: the limits of the axes under the pointer, shifted
PanLims(l, start, xdata, ydata) ==
    LET dx == start[1] - xdata
        dy == start[2] - ydata
    IN  <<l[1] + dx, l[2] + dx, l[3] + dy, l[4] + dy>>

\* DragSlices with x and y exchanged
DragSlicesSwapped(d, s, view_index, xdata, ydata) ==
    LET x == RoundInt(ydata)
        y == RoundInt(xdata)
        w == IF view_index = 0
             THEN [s EXCEPT ![1] = Clamp0(y, d[1]), ![2] = Clamp0(x, d[2])]
             ELSE IF view_index = 1
             THEN [s EXCEPT ![0] = Clamp0(y, d[0]), ![2] = Clamp0(x, d[2])]
             ELSE [s EXCEPT ![0] = Clamp0(y, d[0]), ![1] = Clamp0(x, d[1])]
    IN  [i \in DOMAIN w |-> IF i \in 0..2 THEN Clamp0(w[i], d[i]) ELSE w[i]]

\* lines 297-310: self.slices after a cursor drag at (xdata, ydata)
DragSlices(d, s, view_index, xdata, ydata) ==
    LET x == RoundInt(xdata)
        y == RoundInt(ydata)
        w == IF view_index = 0
             THEN [s EXCEPT ![1] = Clamp0(y, d[1]), ![2] = Clamp0(x, d[2])]
             ELSE IF view_index = 1
             THEN [s EXCEPT ![0] = Clamp0(y, d[0]), ![2] = Clamp0(x, d[2])]
             ELSE [s EXCEPT ![0] = Clamp0(y, d[0]), ![1] = Clamp0(x, d[1])]
    IN  [i \in DOMAIN w |-> IF i \in 0..2 THEN Clamp0(w[i], d[i]) ELSE w[i]]

\* on_mouse_drag testing self.dragging before self.panning
OnMouseDragCursorFirst(view_index, inaxes, xdata, ydata) ==
    IF inaxes = "None" THEN
        /\ err' = "ok"
        /\ UNCHANGED <<data, slices, marked_points, brightness, contrast,
                       brightness_slider, contrast_slider, current_colormap,
                       panning, pan_start, dragging, pan_button,
                       add_point_button, lims, colorbar, vops>>
    ELSE IF dragging /\ ~IsNone(data) THEN
        /\ slices' = DragSlices(data, slices, view_index, xdata, ydata)
        /\ Redraw(data, DragSlices(data, slices, view_index, xdata, ydata),
                  marked_points)
        /\ UNCHANGED <<data, marked_points, brightness, contrast,
                       brightness_slider, contrast_slider, current_colormap,
                       panning, pan_start, dragging, pan_button,
                       add_point_button>>
    ELSE IF panning /\ pan_start # <<>> THEN
        IF inaxes = "image"
        THEN /\ lims' = [lims EXCEPT ![view_index] =
                             PanLims(lims[view_index], pan_start, xdata, ydata)]
             /\ vops' = vops + 1
             /\ err' = "ok"
             /\ UNCHANGED <<data, slices, marked_points, brightness, contrast,
                            brightness_slider, contrast_slider, current_colormap,
                            panning, pan_start, dragging, pan_button,
                            add_point_button, colorbar>>
        ELSE \* ax is the colour bar's axes: its limits are shifted
             /\ err' = "ok"
             /\ UNCHANGED <<data, slices, marked_points, brightness, contrast,
                            brightness_slider, contrast_slider, current_colormap,
                            panning, pan_start, dragging, pan_button,
                            add_point_button, lims, colorbar, vops>>
    ELSE
        /\ err' = "ok"
        /\ UNCHANGED <<data, slices, marked_points, brightness, contrast,
                       brightness_slider, contrast_slider, current_colormap,
                       panning, pan_start, dragging, pan_button,
                       add_point_button, lims, colorbar, vops>>

OnMouseDrag(view_index, inaxes, xdata, ydata) ==
    IF inaxes = "None" THEN
        /\ err' = "ok"
        /\ UNCHANGED <<data, slices, marked_points, brightness, contrast,
                       brightness_slider, contrast_slider, current_colormap,
                       panning, pan_start, dragging, pan_button,
                       add_point_button, lims, colorbar, vops>>
    ELSE IF panning /\ pan_start # <<>> THEN
        IF inaxes = "image"
        THEN /\ lims' = [lims EXCEPT ![view_index] =
                             PanLims(lims[view_index], pan_start, xdata, ydata)]
             /\ vops' = vops + 1
             /\ err' = "ok"
             /\ UNCHANGED <<data, slices, marked_points, brightness, contrast,
                            brightness_slider, contrast_slider, current_colormap,
                            panning, pan_start, dragging, pan_button,
                            add_point_button, colorbar>>
        ELSE \* ax is the colour bar's axes: its limits are shifted
             /\ err' = "ok"
             /\ UNCHANGED <<data, slices, marked_points, brightness, contrast,
                            brightness_slider, contrast_slider, current_colormap,
                            panning, pan_start, dragging, pan_button,
                            add_point_button, lims, colorbar, vops>>
    ELSE IF dragging THEN
        IF IsNone(data)
        THEN /\ err' = "AttributeError"
             /\ UNCHANGED <<data, slices, marked_points, brightness, contrast,
                            brightness_slider, contrast_slider, current_colormap,
                            panning, pan_start, dragging, pan_button,
                            add_point_button, lims, colorbar, vops>>
        ELSE /\ slices' = DragSlices(data, slices, view_index, xdata, ydata)
             /\ Redraw(data, DragSlices(data, slices, view_index, xdata, ydata),
                       marked_points)
             /\ UNCHANGED <<data, marked_points, brightness, contrast,
                            brightness_slider, contrast_slider, current_colormap,
                            panning, pan_start, dragging, pan_button,
                            add_point_button>>
    ELSE
        /\ err' = "ok"
        /\ UNCHANGED <<data, slices, marked_points, brightness, contrast,
                       brightness_slider, contrast_slider, current_colormap,
                       panning, pan_start, dragging, pan_button,
                       add_point_button, lims, colorbar, vops>>

----------------------------------------------------------------------------
(* on_mouse_release, lines 314-318 *)

\* a release that also recentres the cursor, as update_slices_to_center does
OnMouseReleaseRecentres ==
    /\ dragging' = FALSE
    /\ panning' = FALSE
    /\ pan_start' = <<>>
    /\ err' = "ok"
    /\ slices' = IF IsNone(data) THEN slices
                 ELSE [i \in DOMAIN slices |->
                         IF i \in 0..2 THEN data[2 - i] \div 2 ELSE slices[i]]
    /\ UNCHANGED <<data, marked_points, brightness, contrast,
                   brightness_slider, contrast_slider, current_colormap,
                   pan_button, add_point_button, lims, colorbar, vops>>

OnMouseRelease ==
    /\ dragging' = FALSE
    /\ panning' = FALSE
    /\ pan_start' = <<>>
    /\ err' = "ok"
    /\ UNCHANGED <<data, slices, marked_points, brightness, contrast,
                   brightness_slider, contrast_slider, current_colormap,
                   pan_button, add_point_button, lims, colorbar, vops>>

----------------------------------------------------------------------------
(* wheel_zoom, lines 408-442 *)

\* ZoomLims with the upper bounds taken below the cursor (c - (hi - c) / s)
ZoomLimsSignSlip(l, button, xdata, ydata) ==
    IF button = "up"
    THEN <<(xdata + 10 * l[1]) \div 11, (21 * xdata - 10 * l[2]) \div 11,
           (ydata + 10 * l[3]) \div 11, (21 * ydata - 10 * l[4]) \div 11>>
    ELSE <<(11 * l[1] - xdata) \div 10, (21 * xdata - 11 * l[2]) \div 10,
           (11 * l[3] - ydata) \div 10, (21 * ydata - 11 * l[4]) \div 10>>

\* ZoomLims scaling the limits about the origin instead of the cursor
ZoomLimsAboutOrigin(l, button, xdata, ydata) ==
    IF button = "up"
    THEN <<(10 * l[1]) \div 11, (10 * l[2]) \div 11,
           (10 * l[3]) \div 11, (10 * l[4]) \div 11>>
    ELSE <<(11 * l[1]) \div 10, (11 * l[2]) \div 10,
           (11 * l[3]) \div 10, (11 * l[4]) \div 10>>

\* lines 432-435 with scale_factor 1.1 ("up") or 1 / 1.1 ("down"), in exact
\* arithmetic: c - (c - lo) / s and c + (hi - c) / s
ZoomLims(l, button, xdata, ydata) ==
    IF button = "up"
    THEN <<(xdata + 10 * l[1]) \div 11, (xdata + 10 * l[2]) \div 11,
           (ydata + 10 * l[3]) \div 11, (ydata + 10 * l[4]) \div 11>>
    ELSE <<(11 * l[1] - xdata) \div 10, (11 * l[2] - xdata) \div 10,
           (11 * l[3] - ydata) \div 10, (11 * l[4] - ydata) \div 10>>

WheelZoom(index, inaxes, button, xdata, ydata) ==
    IF inaxes = "None" \/ button \notin {"up", "down"} THEN
        /\ err' = "ok"
        /\ UNCHANGED <<data, slices, marked_points, brightness, contrast,
                       brightness_slider, contrast_slider, current_colormap,
                       panning, pan_start, dragging, pan_button,
                       add_point_button, lims, colorbar, vops>>
    ELSE IF inaxes = "image" THEN
        /\ lims' = [lims EXCEPT ![index] = ZoomLims(lims[index], button, xdata, ydata)]
        /\ vops' = vops + 1
        /\ err' = "ok"
        /\ UNCHANGED <<data, slices, marked_points, brightness, contrast,
                       brightness_slider, contrast_slider, current_colormap,
                       panning, pan_start, dragging, pan_button,
                       add_point_button, colorbar>>
    ELSE \* ax is the colour bar's axes: its limits are zoomed
        /\ err' = "ok"
        /\ UNCHANGED <<data, slices, marked_points, brightness, contrast,
                       brightness_slider, contrast_slider, current_colormap,
                       panning, pan_start, dragging, pan_button,
                       add_point_button, lims, colorbar, vops>>

----------------------------------------------------------------------------
(* Inputs *)

\* rectangular 3D blocks whose axes have n - 1 or n elements each
Volumes(n) == [0..2 -> (n - 1)..n]

\* other arrays the loader can return: a 3D block with one empty axis, and a
\* 4D series
Malformed(n) ==
    {sh \in [0..2 -> {0, n}] : Cardinality({i \in 0..2 : sh[i] = 0}) = 1}
        \cup {[i \in 0..3 |-> k] : k \in 1..n}

Shapes(n) == Volumes(n) \cup Malformed(n)

\* event coordinates: -1 (left of the data), 0.5, 1, 1.5, 2.5 (halves round
\* to the even neighbour) and n + 1 (right of the data)
Coords(n) ==
    {-Unit, Unit \div 2, Unit, (3 * Unit) \div 2, (5 * Unit) \div 2, (n + 1) * Unit}

\* the pointer outside every axes: xdata and ydata are None
Outside == [inaxes |-> "None", x |-> 0, y |-> 0]

\* the pointer over a colour bar, at (0.25, 0.75) in the colour bar's own
\* coordinates
OnColorbar == [inaxes |-> "colorbar", x |-> Unit \div 4, y |-> (3 * Unit) \div 4]

\* a pointer position: outside any axes, over the colour bar, or inside the
\* image axes of the canvas at data coordinates from C
Positions(C) ==
    {Outside, OnColorbar}
        \cup {[inaxes |-> "image", x |-> cx, y |-> cy] : cx \in C, cy \in C}

\* an event is inside the image axes only on a canvas whose figure has axes,
\* and over a colour bar only on a canvas whose figure has one
CanBeAt(v, p) ==
    /\ p.inaxes = "image" => HasAxes(v)
    /\ p.inaxes = "colorbar" => v \in colorbar

----------------------------------------------------------------------------
(* Cursor navigation: load, press, drag, release with no button checked *)

NavShapes == Shapes(MaxDim)

NavPress == Positions({Unit \div 2, (3 * Unit) \div 2})

\* drag positions: along the diagonal, and along the row and the column
\* through (1, 1)
NavDrag ==
    {p \in Positions(Coords(MaxDim)) :
        p.inaxes = "image" => (p.x = p.y \/ p.x = Unit \/ p.y = Unit)}

NextNav ==
    \/ \E shape \in NavShapes : LoadNifti(shape)
    \/ LoadNiftiRaises
    \/ \E v \in Views, p \in NavPress :
          CanBeAt(v, p) /\ OnMousePress(v, p.inaxes, p.x, p.y)
    \/ \E v \in Views, p \in NavDrag :
          CanBeAt(v, p) /\ OnMouseDrag(v, p.inaxes, p.x, p.y)
    \/ OnMouseRelease

SpecNav == Init /\ [][NextNav]_vars

----------------------------------------------------------------------------
(* Annotation: the navigation events plus the Add Point button, on the cube
   of side MaxDim and the volumes one element shorter along one axis *)

MarkShapes ==
    {sh \in [0..2 -> {MaxDim - 1, MaxDim}] :
        Cardinality({i \in 0..2 : sh[i] # MaxDim}) <= 1}

\* clicks left of the data, at 0.5 and at 1.5 (rounded to 0 and to 2): on
\* the diagonal and along the column x = 0.5, and over the colour bar
MarkPress ==
    {p \in Positions({-Unit, Unit \div 2, (3 * Unit) \div 2}) :
        p.inaxes = "image" => (p.x = p.y \/ p.x = Unit \div 2)}

\* drag positions: outside the axes and on the diagonal of the image
MarkDrag ==
    {p \in Positions({Unit \div 2, (3 * Unit) \div 2}) :
        p.inaxes = "None" \/ (p.inaxes = "image" /\ p.x = p.y)}

NextMark ==
    \/ \E shape \in MarkShapes : LoadNifti(shape)
    \/ ToggleAddPointButton
    \/ \E v \in Views, p \in MarkPress :
          CanBeAt(v, p) /\ OnMousePress(v, p.inaxes, p.x, p.y)
    \/ \E v \in Views, p \in MarkDrag :
          CanBeAt(v, p) /\ OnMouseDrag(v, p.inaxes, p.x, p.y)
    \/ OnMouseRelease

SpecMark == Init /\ [][NextMark]_vars

----------------------------------------------------------------------------
(* The whole viewer: every handler, on few inputs.  Every handler runs
   whenever its signal arrives, also while a mouse button is held on a
   canvas.  The pointer is used on two of the three canvases. *)

\* the combo box's entries (line 130) used here
Colormaps == {"gray", "jet"}

\* slider positions used here, within -100..100 and 1..200 (lines 100-112)
BrightnessValues == {0, 10}

ContrastValues == {100, 150}

\* where the button goes down, and where the pointer is dragged to
PressAt == [inaxes |-> "image", x |-> Unit \div 2, y |-> (3 * Unit) \div 2]

DragTo == [inaxes |-> "image", x |-> (3 * Unit) \div 2, y |-> Unit \div 2]

\* the canvases the pointer is used on: Axial and Coronal
PointerViews == {0, 1}

Next ==
    \/ LoadNifti([i \in 0..2 |-> MaxDim])
    \/ \E name \in Colormaps : ColormapChanged(name)
    \/ \E b \in BrightnessValues : BrightnessSliderChanged(b)
    \/ \E c \in ContrastValues : ContrastSliderChanged(c)
    \/ TogglePanButton
    \/ ToggleAddPointButton
    \/ \E v \in PointerViews, p \in {PressAt, Outside} :
          CanBeAt(v, p) /\ OnMousePress(v, p.inaxes, p.x, p.y)
    \/ \E v \in PointerViews, p \in {DragTo, Outside} :
          /\ (panning /\ p.inaxes = "image") => vops < MaxViewOps
          /\ CanBeAt(v, p)
          /\ OnMouseDrag(v, p.inaxes, p.x, p.y)
    \/ OnMouseRelease
    \/ \E v \in PointerViews, p \in {PressAt, Outside},
            button \in {"up", "down"} :
          /\ p.inaxes = "image" => vops < MaxViewOps
          /\ CanBeAt(v, p)
          /\ WheelZoom(v, p.inaxes, button, p.x, p.y)

Spec == Init /\ [][Next]_vars

----------------------------------------------------------------------------
(* Viewports: pans and zooms on the three canvases, over the image, over
   the colour bar and outside both, on the cube of side MaxDim *)

NextView ==
    \/ LoadNifti([i \in 0..2 |-> MaxDim])
    \/ TogglePanButton
    \/ \E v \in Views, p \in {PressAt, OnColorbar, Outside} :
          CanBeAt(v, p) /\ OnMousePress(v, p.inaxes, p.x, p.y)
    \/ \E v \in Views, p \in {DragTo, OnColorbar, Outside} :
          /\ (panning /\ p.inaxes = "image") => vops < MaxViewOps
          /\ CanBeAt(v, p)
          /\ OnMouseDrag(v, p.inaxes, p.x, p.y)
    \/ OnMouseRelease
    \/ \E v \in Views, p \in {PressAt, OnColorbar, Outside},
            button \in {"up", "down"} :
          /\ p.inaxes = "image" => vops < MaxViewOps
          /\ CanBeAt(v, p)
          /\ WheelZoom(v, p.inaxes, button, p.x, p.y)

SpecView == Init /\ [][NextView]_vars

----------------------------------------------------------------------------
(* Gestures: presses, drags and releases in any order on the Axial and the
   Coronal canvas, over the image, over the colour bar and outside both,
   with the two buttons toggled at any time (from the keyboard, also while
   a mouse button is held), on the cube of side MaxDim *)

NextGesture ==
    \/ LoadNifti([i \in 0..2 |-> MaxDim])
    \/ TogglePanButton
    \/ ToggleAddPointButton
    \/ \E v \in PointerViews, p \in {PressAt, OnColorbar, Outside} :
          CanBeAt(v, p) /\ OnMousePress(v, p.inaxes, p.x, p.y)
    \/ \E v \in PointerViews, p \in {DragTo, OnColorbar, Outside} :
          /\ (panning /\ p.inaxes = "image") => vops < MaxViewOps
          /\ CanBeAt(v, p)
          /\ OnMouseDrag(v, p.inaxes, p.x, p.y)
    \/ OnMouseRelease

SpecGesture == Init /\ [][NextGesture]_vars

----------------------------------------------------------------------------
(* Windowing: the sliders over their whole ranges, on the cube of side
   MaxDim *)

\* brightness slider positions within -100..100 (lines 100-101)
WindowBrightness == {0 - 100, 0 - 51, 0 - 50, 0, 10, 50, 51, 100}

\* contrast slider positions within 1..200 (lines 110-111)
WindowContrast == {1, 50, 100, 150, 200}

\* planes of three pixels
Planes(n) == [1..3 -> 0..n]

NextWindow ==
    \/ LoadNifti([i \in 0..2 |-> MaxDim])
    \/ \E name \in Colormaps : ColormapChanged(name)
    \/ \E b \in WindowBrightness : BrightnessSliderChanged(b)
    \/ \E c \in WindowContrast : ContrastSliderChanged(c)

SpecWindow == Init /\ [][NextWindow]_vars

----------------------------------------------------------------------------
(* Vocabulary of the properties *)

\* a rectangular 3D block with every axis non-empty
IsVolume(d) == DOMAIN d = 0..2 /\ \A a \in 0..2 : d[a] >= 1

\* an array is loaded and its three spatial axes are non-empty
HasExtent(d) == ~IsNone(d) /\ \A a \in 0..2 : d[a] >= 1

\* clamp(x, lo, hi) for lo <= hi
ClampTo(x, lo, hi) == IF x < lo THEN lo ELSE IF x > hi THEN hi ELSE x

\* the depth axis the design assigns to each view: Axial 2, Coronal 1,
\* Sagittal 0
ViewDepthAxis(v) == IF v = 0 THEN 2 ELSE IF v = 1 THEN 1 ELSE 0

Triple(a, b, c) == [i \in 0..2 |-> IF i = 0 THEN a ELSE IF i = 1 THEN b ELSE c]

----------------------------------------------------------------------------
(* C1 *)

\* C1: whenever a well-formed volume of any shape is loaded, the depth index
\* each view uses to extract its plane lies in [0, D_d - 1], d being the
\* view's own depth axis, and no redraw has indexed the volume out of range.
C1_DepthIndexWithinOwnAxis ==
    IsVolume(data) =>
        /\ \A v \in Views :
              GetSliceIndex(data, v, slices[v]) \in 0..(data[ViewDepthAxis(v)] - 1)
        /\ err # "IndexError"

----------------------------------------------------------------------------
(* C2 *)

\* C2: in every state with a volume of dimensions (D0, D1, D2) loaded, the
\* cursor satisfies 0 <= slices[a] < D_a for each axis a.
C2_CursorWithinVolume ==
    HasExtent(data) => \A a \in 0..2 : 0 <= slices[a] /\ slices[a] < data[a]

\* a non-cubic volume whose cursor a drag has moved off the midpoint, up to
\* the last index of axis 1
C2_Witness ==
    /\ IsVolume(data)
    /\ data[0] # data[1]
    /\ dragging
    /\ slices # MidSlices(data)
    /\ slices[1] = data[1] - 1

----------------------------------------------------------------------------
(* C3 *)

\* the cursor the synchronisation rule prescribes after a drag in view v at
\* snapped coordinates (x, y)
C3_Expected(d, s, v, x, y) ==
    IF v = 0 THEN Triple(s[0], ClampTo(y, 0, d[1] - 1), ClampTo(x, 0, d[2] - 1))
    ELSE IF v = 1 THEN Triple(ClampTo(y, 0, d[0] - 1), s[1], ClampTo(x, 0, d[2] - 1))
    ELSE Triple(ClampTo(y, 0, d[0] - 1), ClampTo(x, 0, d[1] - 1), s[2])

\* C3: a cursor drag in view v at snapped coordinates (x, y) leaves slices[v]
\* unchanged and writes the other two: Axial slices[1] = clamp(y), slices[2] =
\* clamp(x); Coronal slices[0] = clamp(y), slices[2] = clamp(x); Sagittal
\* slices[0] = clamp(y), slices[1] = clamp(x), each against its own axis.
C3_DragWritesTheOtherTwo ==
    [][\A v \in Views, p \in NavDrag :
          (/\ p.inaxes # "None" /\ dragging /\ ~panning /\ HasExtent(data)
           /\ data' = data
           /\ OnMouseDrag(v, p.inaxes, p.x, p.y))
          => \A a \in 0..2 :
                slices'[a] =
                    C3_Expected(data, slices, v, RoundInt(p.x), RoundInt(p.y))[a]]_vars

\* a drag in the Axial view has moved slices[1] and slices[2] and left
\* slices[0] at the midpoint
C3_Witness ==
    /\ IsVolume(data)
    /\ dragging
    /\ err = "ok"
    /\ slices[0] = data[0] \div 2
    /\ slices[1] # data[1] \div 2
    /\ slices[2] # data[2] \div 2

----------------------------------------------------------------------------
(* C4 *)

\* C4: a press with no button checked, in view v at (x, y), already moves the
\* cursor: the depth indices of the other two views become the clamped
\* click coordinates, with no motion event needed.
C4_PressMovesCursor ==
    [][\A v \in Views, p \in NavPress :
          (/\ p.inaxes = "image" /\ ~pan_button /\ ~add_point_button /\ IsVolume(data)
           /\ CanBeAt(v, p)
           /\ OnMousePress(v, p.inaxes, p.x, p.y))
          => slices' = C3_Expected(data, slices, v, RoundInt(p.x), RoundInt(p.y))]_vars

----------------------------------------------------------------------------
(* C5 *)

\* the 3D point a click at snapped (x, y) in view v implies: (x, y) on the
\* view's plane axes (row, col), clamped to them, and the current depth of
\* the view on its depth axis
C5_Point(d, s, v, x, y) ==
    IF v = 0
    THEN Triple(ClampTo(x, 0, d[0] - 1), ClampTo(y, 0, d[1] - 1), s[0])
    ELSE IF v = 1
    THEN Triple(ClampTo(x, 0, d[0] - 1), s[1], ClampTo(y, 0, d[2] - 1))
    ELSE Triple(s[2], ClampTo(x, 0, d[1] - 1), ClampTo(y, 0, d[2] - 1))

\* the projections of the 3D point pt: Axial (p0, p1), Coronal (p0, p2),
\* Sagittal (p1, p2)
C5_Projections(pt) ==
    [i \in Views |-> IF i = 0 THEN << <<pt[0], pt[1]>> >>
                     ELSE IF i = 1 THEN << <<pt[0], pt[2]>> >>
                     ELSE << <<pt[1], pt[2]>> >>]

\* C5: placing a point in view v at (x, y) leaves in the three views the
\* projections of one single 3D point: its in-plane coordinates are (x, y) on
\* the plane axes of v, its missing coordinate is the current depth of v.
C5_MarksProjectOnePoint ==
    [][\A v \in Views, p \in MarkPress :
          (/\ p.inaxes = "image" /\ add_point_button /\ ~pan_button /\ IsVolume(data)
           /\ CanBeAt(v, p)
           /\ OnMousePress(v, p.inaxes, p.x, p.y))
          => marked_points' =
                 C5_Projections(C5_Point(data, slices, v,
                                         RoundInt(p.x), RoundInt(p.y)))]_vars

----------------------------------------------------------------------------
(* C6 *)

\* C6: the three per-view lists of marked points always have the same
\* length, 0 or 1: never more than one marked point, and never a point in
\* one view without its counterpart in the others.
C6_AtMostOneMarkedPoint ==
    /\ Len(marked_points[0]) \in {0, 1}
    /\ Len(marked_points[1]) = Len(marked_points[0])
    /\ Len(marked_points[2]) = Len(marked_points[0])

\* a point has been placed left of the data in the Sagittal view (its own
\* projection has the clamped x = 0) of a redrawn volume
C6_Witness ==
    /\ IsVolume(data)
    /\ add_point_button
    /\ err = "ok"
    /\ Len(marked_points[0]) = 1
    /\ Len(marked_points[1]) = 1
    /\ marked_points[2] = << <<0, data[2] - 1>> >>

----------------------------------------------------------------------------
(* C7 *)

\* C7: a load whose data is not a rectangular 3D block with all dimensions
\* positive fails, and leaves the session's volume and cursor as they were.
C7_MalformedLoadRejected ==
    [][\A shape \in NavShapes :
          (~IsVolume(shape) /\ LoadNifti(shape))
          => (err' # "ok" /\ data' = data /\ slices' = slices)]_vars

----------------------------------------------------------------------------
(* C8 *)

\* a motion event that moves the cursor: inside axes, in a drag gesture, no pan
C8_CursorDrag ==
    \E v \in Views, p \in {DragTo, OnColorbar} :
        /\ CanBeAt(v, p) /\ dragging /\ ~(panning /\ pan_start # <<>>)
        /\ OnMouseDrag(v, p.inaxes, p.x, p.y)

\* the events that must leave the cursor alone: a colormap, brightness or
\* contrast change, a zoom, a pan press or an add-point press, a pan drag, a
\* release
C8_FramedEvent ==
    \/ \E name \in Colormaps : UpdateColormap(name)
    \/ \E b \in BrightnessValues : BrightnessSliderChanged(b)
    \/ \E c \in ContrastValues : ContrastSliderChanged(c)
    \/ \E v \in Views, p \in {PressAt, OnColorbar}, button \in {"up", "down"} :
          CanBeAt(v, p) /\ WheelZoom(v, p.inaxes, button, p.x, p.y)
    \/ \E v \in Views, p \in {PressAt, OnColorbar} :
          /\ (pan_button \/ add_point_button) /\ CanBeAt(v, p)
          /\ OnMousePress(v, p.inaxes, p.x, p.y)
    \/ \E v \in Views, p \in {DragTo, OnColorbar} :
          /\ panning /\ CanBeAt(v, p)
          /\ OnMouseDrag(v, p.inaxes, p.x, p.y)
    \/ OnMouseRelease

\* C8: the cursor is changed only by a load and by a cursor drag; colormap,
\* brightness and contrast changes, zooms, pan presses and pan drags,
\* add-point presses and releases leave slices as it was.
C8_CursorFrame ==
    [][slices' # slices =>
          /\ LoadNifti([i \in 0..2 |-> MaxDim]) \/ C8_CursorDrag
          /\ ~C8_FramedEvent]_vars

\* the cursor has been dragged off the midpoint and released, and since then
\* a point was placed, the colormap and both sliders were changed and a view
\* was zoomed
C8_Witness ==
    /\ IsVolume(data)
    /\ slices # MidSlices(data)
    /\ ~dragging
    /\ Len(marked_points[0]) = 1
    /\ current_colormap = "jet"
    /\ brightness = 10
    /\ contrast = 150
    /\ vops = 1

----------------------------------------------------------------------------
(* C9 *)

\* C9: a view's viewport is changed only by a pan or zoom in that view (or
\* reset by a load): cursor drags, point placement and colormap, brightness
\* and contrast changes leave all three viewports as they were, and a pan or
\* zoom in one view leaves the other two as they were.
C9_ViewportFrame ==
    [][IsVolume(data) =>
          /\ C8_CursorDrag => lims' = lims
          /\ \A v \in Views :
                (add_point_button /\ ~pan_button /\ HasAxes(v)
                 /\ OnMousePress(v, PressAt.inaxes, PressAt.x, PressAt.y))
                    => lims' = lims
          /\ \A name \in Colormaps : UpdateColormap(name) => lims' = lims
          /\ \A b \in BrightnessValues : BrightnessSliderChanged(b) => lims' = lims
          /\ \A c \in ContrastValues : ContrastSliderChanged(c) => lims' = lims
          /\ \A v \in Views, button \in {"up", "down"} :
                (HasAxes(v)
                 /\ WheelZoom(v, PressAt.inaxes, button, PressAt.x, PressAt.y))
                    => \A w \in Views \ {v} : lims'[w] = lims[w]
          /\ \A v \in Views :
                (panning /\ HasAxes(v)
                 /\ OnMouseDrag(v, DragTo.inaxes, DragTo.x, DragTo.y))
                    => \A w \in Views \ {v} : lims'[w] = lims[w]]_vars

----------------------------------------------------------------------------
(* C10 *)

\* C10: while no volume is loaded, every event has completed without error,
\* nothing has been rendered, and the cursor and the marked point are as
\* constructed.
C10_NoVolumeNoEffect ==
    IsNone(data) =>
        /\ err = "ok"
        /\ \A v \in Views : ~HasAxes(v)
        /\ slices = [i \in 0..2 |-> 0]
        /\ marked_points = [i \in Views |-> <<>>]

\* no volume loaded, and the colormap, both sliders and both buttons have
\* been operated
C10_Witness ==
    /\ IsNone(data)
    /\ current_colormap = "jet"
    /\ brightness = 10
    /\ contrast = 150
    /\ pan_button
    /\ add_point_button

----------------------------------------------------------------------------
(* C11 *)

\* depths requested of the extractor: from 5 below the first plane to 5
\* beyond the last
C11_Depths == (0 - 5)..(MaxDim + 5)

\* C11: for every view v and every requested depth k, in range or not,
\* extraction returns the plane at clamp(k, 0, D_d - 1) along d, the view's
\* own depth axis, for cubic and non-cubic volumes alike.
C11_ExtractionClamps ==
    IsVolume(data) =>
        \A v \in Views, k \in C11_Depths :
            GetSlicePlane(data, v, k) =
                <<ViewDepthAxis(v), ClampTo(k, 0, data[ViewDepthAxis(v)] - 1)>>

----------------------------------------------------------------------------
(* C12 *)

\* C12: right after any load or reload of a volume of dimensions (D0, D1,
\* D2), whatever the cursor was before, the cursor is (D0 div 2, D1 div 2,
\* D2 div 2).
C12_LoadCentresCursor ==
    [][\A shape \in NavShapes :
          (IsVolume(shape) /\ data' = shape /\ LoadNifti(shape))
          => slices' = Triple(shape[0] \div 2, shape[1] \div 2, shape[2] \div 2)]_vars

\* a non-cubic volume has been loaded over a drawn one during a drag
\* gesture, and its cursor is at its midpoint although its redraw failed
C12_Witness ==
    /\ IsVolume(data)
    /\ data[0] \div 2 # data[2] \div 2
    /\ dragging
    /\ HasAxes(0)
    /\ err = "IndexError"
    /\ slices = Triple(data[0] \div 2, data[1] \div 2, data[2] \div 2)

----------------------------------------------------------------------------
(* C13 *)

\* the volume axes the two coordinates of a projection denote in each view:
\* Axial (0, 1), Coronal (0, 2), Sagittal (1, 2)
C13_PlaneAxes(v) == IF v = 0 THEN <<0, 1>> ELSE IF v = 1 THEN <<0, 2>> ELSE <<1, 2>>

\* C13: every coordinate of the marked point's projection in each view lies
\* within the bounds of the volume axis it denotes in that view, for the
\* volume currently loaded.
C13_MarksWithinVolume ==
    IsVolume(data) =>
        \A v \in Views : \A n \in DOMAIN marked_points[v] :
            /\ marked_points[v][n][1] \in 0..(data[C13_PlaneAxes(v)[1]] - 1)
            /\ marked_points[v][n][2] \in 0..(data[C13_PlaneAxes(v)[2]] - 1)

----------------------------------------------------------------------------
(* C14 *)

\* a press that places a point: inside axes of view v, Add Point checked
C14_Placement(v, p) ==
    /\ p.inaxes # "None" /\ add_point_button /\ ~pan_button /\ IsVolume(data)
    /\ CanBeAt(v, p)
    /\ OnMousePress(v, p.inaxes, p.x, p.y)

\* what every placement leaves alone, in a step that changes something
\* (tested once per step, before the placements are told apart)
C14_PlacementFrame ==
    /\ add_point_button /\ IsVolume(data)
    /\ UNCHANGED <<data, slices, dragging, add_point_button>>
    /\ ~UNCHANGED <<marked_points, lims, vops, err>>

\* C14 as stated: after placing a point via view v at snapped coordinates
\* (x, y), the projection stored for view v is exactly (x, y).
C14_RoundTripExact ==
    [][C14_PlacementFrame =>
          \A v \in Views, p \in MarkPress :
              C14_Placement(v, p)
              => marked_points'[v] = << <<RoundInt(p.x), RoundInt(p.y)>> >>]_vars

\* C14 amended: the projection stored for view v is (x, y) clamped to the
\* bounds of the two plane axes of v; it is exactly (x, y) when (x, y) lies
\* within them.
C14_RoundTripClamped ==
    [][C14_PlacementFrame =>
          \A v \in Views, p \in MarkPress :
              \/ marked_points'[v] =
                     << <<ClampTo(RoundInt(p.x), 0, data[C13_PlaneAxes(v)[1]] - 1),
                          ClampTo(RoundInt(p.y), 0, data[C13_PlaneAxes(v)[2]] - 1)>> >>
              \/ ~C14_Placement(v, p)]_vars

\* a point has been placed in the Coronal view of a redrawn non-cubic
\* volume, at x = 0 and at the last index of axis 2
C14_Witness ==
    /\ IsVolume(data)
    /\ data[0] # data[2]
    /\ add_point_button
    /\ err = "ok"
    /\ marked_points[1] = << <<0, data[2] - 1>> >>
    /\ marked_points[0] = << <<0, slices[0]>> >>

----------------------------------------------------------------------------
(* C15 *)

\* C15: every view's viewport rectangle is non-empty in every reachable
\* state: x_max > x_min and y_max > y_min, after a load and after any pans
\* and zooms.
C15_ViewportNonEmpty ==
    \A v \in Views :
        HasAxes(v) => (lims[v][2] > lims[v][1] /\ lims[v][4] > lims[v][3])

\* a pan has shifted a view of the loaded volume left of the data
C15_Witness ==
    /\ IsVolume(data)
    /\ panning
    /\ vops >= 1
    /\ \E v \in Views : HasAxes(v) /\ lims[v][1] < 0

----------------------------------------------------------------------------
(* C16 *)

RECURSIVE C16_Gcd(_, _)
\* greatest common divisor of a >= 0 and b >= 0
C16_Gcd(a, b) == IF b = 0 THEN a ELSE C16_Gcd(b, a % b)

\* the fraction a / b, b > 0, in lowest terms
C16_Fraction(a, b) == <<a \div C16_Gcd(a, b), b \div C16_Gcd(a, b)>>

\* (c - new_min) / (new_max - new_min) = (c - old_min) / (old_max - old_min),
\* as equal fractions in lowest terms, for non-empty intervals
C16_SameRatio(c, old_min, old_max, new_min, new_max) ==
    C16_Fraction(c - new_min, new_max - new_min) =
        C16_Fraction(c - old_min, old_max - old_min)

\* C16: a zoom by 1.1 or 1 / 1.1 at a center (cx, cy) inside the current
\* viewport preserves the relative position of the center on both axes, in
\* exact arithmetic.
C16_ZoomFixedPoint ==
    [][(vops' = vops + 1 /\ slices' = slices) =>
          \A v \in Views, button \in {"up", "down"} :
              (/\ HasAxes(v)
               /\ lims[v][1] <= PressAt.x /\ PressAt.x <= lims[v][2]
               /\ lims[v][3] <= PressAt.y /\ PressAt.y <= lims[v][4]
               /\ WheelZoom(v, PressAt.inaxes, button, PressAt.x, PressAt.y))
              => /\ lims'[v][2] > lims'[v][1] /\ lims'[v][4] > lims'[v][3]
                 /\ C16_SameRatio(PressAt.x, lims[v][1], lims[v][2],
                                  lims'[v][1], lims'[v][2])
                 /\ C16_SameRatio(PressAt.y, lims[v][3], lims[v][4],
                                  lims'[v][3], lims'[v][4])]_vars

\* a view of the loaded volume has been zoomed in: it is narrower than its
\* plane
C16_Witness ==
    /\ IsVolume(data)
    /\ ~dragging /\ ~panning
    /\ vops >= 1
    /\ \E v \in Views :
          HasAxes(v) /\ lims[v][2] - lims[v][1] < PlaneShape(data, v)[1] * Unit

----------------------------------------------------------------------------
(* C17 *)

\* all pixels of the plane are equal
C17_Flat(plane) == \A i, j \in DOMAIN plane : plane[i] = plane[j]

\* C17: windowing a flat plane yields the constant clamp(0.5 + brightness,
\* 0, 1), whatever the contrast, and every windowed value of any plane lies
\* in [0, 1].
C17_FlatPlaneAndRange ==
    \A plane \in Planes(MaxIntensity) :
        LET w == Windowed(plane, brightness, contrast)
        IN  \A i \in DOMAIN plane :
                /\ w[i].den > 0
                /\ 0 <= w[i].num /\ w[i].num <= w[i].den
                /\ C17_Flat(plane)
                       => 100 * w[i].num = ClampTo(50 + brightness, 0, 100) * w[i].den

\* the spec's example: contrast 1.5 and brightness 0.1 set by the sliders,
\* with a volume drawn
C17_Witness ==
    /\ IsVolume(data)
    /\ contrast = 150
    /\ brightness = 10
    /\ err = "ok"
    /\ Windowed([i \in 1..3 |-> MaxIntensity], brightness, contrast)[1] =
           [num |-> 240, den |-> 400]

----------------------------------------------------------------------------
(* C18 *)

\* C18: right after a load each view shows the middle plane of the volume
\* along the axis it slices (Axial D2 div 2 along axis 2, Coronal D1 div 2
\* along axis 1, Sagittal D0 div 2 along axis 0), for every shape;
\* equivalently the cursor load_nifti sets is the one
\* update_slices_to_center computes.
C18_LoadShowsMiddlePlanes ==
    [][\A shape \in NavShapes :
          (IsVolume(shape) /\ data' = shape /\ LoadNifti(shape))
          => /\ \A v \in Views :
                   GetSlicePlane(shape, v, slices'[v]) =
                       <<ViewDepthAxis(v), shape[ViewDepthAxis(v)] \div 2>>
             /\ slices' = SlicesToCenter(shape)]_vars

----------------------------------------------------------------------------
(* C19 *)

\* a motion event inside axes of view v
C19_Drag(v) ==
    \E p \in {DragTo, OnColorbar} :
        CanBeAt(v, p) /\ OnMouseDrag(v, p.inaxes, p.x, p.y)

\* a press inside axes of view v
C19_Press(v) ==
    \E p \in {PressAt, OnColorbar} :
        CanBeAt(v, p) /\ OnMousePress(v, p.inaxes, p.x, p.y)

\* C19: a drag event moves the cursor only in a drag gesture - a press
\* with no button checked has set the gesture (dragging), no release has
\* ended it, and no pan is in progress; with no gesture in progress (after a
\* release, until the next press) a drag event changes neither the cursor
\* nor any viewport; and a drag event that pans does not move the cursor.
C19_DragGating ==
    [][/\ \A v \in Views :
             C19_Drag(v) =>
                 /\ slices' # slices => (dragging /\ ~panning)
                 /\ (~dragging /\ ~panning) => (slices' = slices /\ lims' = lims)
                 /\ (panning /\ lims' # lims) => slices' = slices
       /\ (dragging' /\ ~dragging) =>
             (~pan_button /\ ~add_point_button /\ \E v \in Views : C19_Press(v))
       /\ (panning' /\ ~panning) => (pan_button /\ \E v \in Views : C19_Press(v))
       /\ OnMouseRelease => (~dragging' /\ ~panning')]_vars

\* a press with no button checked has come while a pan was in progress, and
\* a drag event has panned a view since
C19_Witness ==
    /\ IsVolume(data)
    /\ dragging
    /\ panning
    /\ vops >= 1
    /\ slices = MidSlices(data)

====
